---- MODULE Spec2Model ----
(***************************************************************************)
(* Admission control of the MirrorView backend: the fixed-window rate      *)
(* limiter (app/security.py) and the request-body guard and middleware     *)
(* pipeline (app/main.py).                                                 *)
(*                                                                         *)
(* Time.  A wall-clock reading (time.time(), a float) is a pair <<s, h>>:  *)
(* s whole seconds and h \in {0, 1} the half second, so <<59, 1>> is 59.5. *)
(* int(now) is the first component.                                        *)
(***************************************************************************)
EXTENDS Integers, Sequences, FiniteSets, TLC

VARIABLES
    policy,     \* EndpointRateLimiter._policy: scope -> sequence of rules
    clock,      \* the wall clock, time.time()
    counts,     \* InMemoryRateLimitStore._counts, the buckets of the observed client
    bg,         \* the buckets of all other clients in _counts: how many, and when they elapse
    evicted,    \* history: the observed buckets a sweep has removed so far
    thr,        \* SpecStore: the threads calling EndpointRateLimiter.check
    lock,       \* InMemoryRateLimitStore._lock: 0 when free, else the thread inside `with`
    cfg,        \* main.py 55-57: body_limit_bytes, trust_proxy_headers, csp_report_only
    profile,    \* the requests the environment sends: how many, and what they may carry
    req,        \* the requests in security_middleware, each with its locals and its response
    order       \* history: the requests in the order their rate-limit check ran

vars == <<policy, clock, counts, bg, evicted, thr, lock, cfg, profile, req, order>>

----------------------------------------------------------------------------
(* Bounds and inputs *)

NumThreads == 3

TimePoints == {<<0, 0>>, <<0, 1>>, <<1, 0>>, <<59, 1>>, <<60, 0>>}

Before(a, b) == a[1] < b[1] \/ (a[1] = b[1] /\ a[2] < b[2])

Max(a, b) == IF a >= b THEN a ELSE b

SeqMax(s) == LET F[i \in 0..Len(s)] == IF i = 0 THEN 0 ELSE Max(s[i], F[i - 1])
             IN  F[Len(s)]

----------------------------------------------------------------------------
(* Configuration: security.py *)

LimitUnitSeconds(unit) ==
    CASE unit = "second" -> 1
      [] unit = "minute" -> 60
      [] unit = "hour"   -> 3600

RateLimitRule(limit, window_seconds) ==
    [limit |-> limit, window_seconds |-> window_seconds]

\* _parse_rules on a well-formed string, given as its tokens <<count, unit>>.
ParseRules(tokens) ==
    [i \in 1..Len(tokens) |-> RateLimitRule(tokens[i][1], LimitUnitSeconds(tokens[i][2]))]

Scopes == {"generate_response", "feedback_thumb", "feedback_edit"}

\* build_rate_limit_policy with RATE_LIMIT_GENERATE set to `generate`.
BuildRateLimitPolicy(generate) ==
    [s \in Scopes |->
        CASE s = "generate_response" -> ParseRules(generate)
          [] s = "feedback_thumb"    -> ParseRules(<<<<30, "minute">>, <<300, "hour">>>>)
          [] s = "feedback_edit"     -> ParseRules(<<<<15, "minute">>, <<120, "hour">>>>)]

CleanupThreshold == 10000

----------------------------------------------------------------------------
(* InMemoryRateLimitStore: security.py 30-62.  A table is [counts, bg].     *)

IntPart(now) == now[1]

WindowStart(now, window_seconds) == (now[1] \div window_seconds) * window_seconds

\* the client's key left out of the bucket key: one counter for all clients
BucketOfAnyClient(key, scope, rule, now) ==
    <<"", scope, rule.window_seconds, WindowStart(now, rule.window_seconds)>>

\* lines 41-42: window_start and bucket
BucketOf(key, scope, rule, now) ==
    <<key, scope, rule.window_seconds, WindowStart(now, rule.window_seconds)>>

GetCount(cnts, bucket) == IF bucket \in DOMAIN cnts THEN cnts[bucket] ELSE 0

\* the comparison of line 45 off by one
HitDeniesOffByOne(count, rule) == count > rule.limit

\* line 45

HitDenies(count, rule) == count >= rule.limit

\* the delay of line 46 one second too long
RetryAfterOneMore(bucket, now) == Max((bucket[4] + bucket[3]) - IntPart(now), 1) + 1

\* the delay of line 46 one second too short
RetryAfterOneShort(bucket, now) == Max((bucket[4] + bucket[3]) - IntPart(now) - 1, 1)

\* lines 46-47
RetryAfter(bucket, now) == Max((bucket[4] + bucket[3]) - IntPart(now), 1)

TableLen(tbl) == Cardinality(DOMAIN tbl.counts) + tbl.bg.n

\* a bucket whose window ends exactly at int(now) kept
IsStaleStrict(bucket, now) == bucket[4] + bucket[3] < IntPart(now)

\* line 58: the window of the bucket has elapsed at int(now)
IsStale(bucket, now) == bucket[4] + bucket[3] <= IntPart(now)

CleanupIfNeeded(tbl, now) ==
    IF TableLen(tbl) < CleanupThreshold
    THEN tbl
    ELSE [counts |-> [b \in {x \in DOMAIN tbl.counts : ~IsStale(x, now)} |-> tbl.counts[b]],
          bg     |-> IF tbl.bg.expiry <= IntPart(now)
                     THEN [tbl.bg EXCEPT !.n = 0]
                     ELSE tbl.bg]

\* the count written back as it was read
PutCountNoIncrement(cnts, bucket, n) ==
    [b \in DOMAIN cnts \cup {bucket} |-> IF b = bucket THEN n - 1 ELSE cnts[b]]

PutCount(cnts, bucket, n) ==
    [b \in DOMAIN cnts \cup {bucket} |-> IF b = bucket THEN n ELSE cnts[b]]

\* the count incremented before it is compared: a denied hit counts too
HitCountsDenied(tbl, key, scope, rule, now) ==
    LET bucket == BucketOf(key, scope, rule, now)
        count  == GetCount(tbl.counts, bucket)
        put    == [tbl EXCEPT !.counts = PutCount(tbl.counts, bucket, count + 1)]
        out    == CleanupIfNeeded(put, now)
    IN  IF HitDenies(count, rule)
        THEN [allowed |-> FALSE, retry_after |-> RetryAfter(bucket, now), tbl |-> put,
              swept |-> {}]
        ELSE [allowed |-> TRUE, retry_after |-> 0, tbl |-> out,
              swept |-> DOMAIN put.counts \ DOMAIN out.counts]

\* hit, lines 40-50: the body of `with self._lock`
Hit(tbl, key, scope, rule, now) ==
    LET bucket == BucketOf(key, scope, rule, now)
        count  == GetCount(tbl.counts, bucket)
    IN  IF HitDenies(count, rule)
        THEN [allowed |-> FALSE, retry_after |-> RetryAfter(bucket, now), tbl |-> tbl,
              swept |-> {}]
        ELSE LET put == [tbl EXCEPT !.counts = PutCount(tbl.counts, bucket, count + 1)]
                 out == CleanupIfNeeded(put, now)
             IN  [allowed |-> TRUE, retry_after |-> 0, tbl |-> out,
                  swept |-> DOMAIN put.counts \ DOMAIN out.counts]

----------------------------------------------------------------------------
(* EndpointRateLimiter.check: security.py 70-83 *)

Denied(results) == {i \in 1..Len(results) : ~results[i].allowed}

\* the delay of the last rule evaluated, whether or not that rule denied
CheckResultLast(results) ==
    IF Denied(results) # {}
    THEN [allowed |-> FALSE, retry_after |-> results[Len(results)].retry_after]
    ELSE [allowed |-> TRUE, retry_after |-> 0]

\* the delay of the first rule that denied
CheckResultFirst(results) ==
    IF Denied(results) # {}
    THEN [allowed |-> FALSE,
          retry_after |-> results[CHOOSE i \in Denied(results) :
                                     \A j \in Denied(results) : i <= j].retry_after]
    ELSE [allowed |-> TRUE, retry_after |-> 0]

\* retry_after_values, then the decision of lines 81-83
CheckResult(results) ==
    IF Denied(results) # {}
    THEN [allowed |-> FALSE,
          retry_after |-> SeqMax([i \in 1..Len(results) |->
                                    IF results[i].allowed THEN 0 ELSE results[i].retry_after])]
    ELSE [allowed |-> TRUE, retry_after |-> 0]

\* the loop left at the first rule that denies
RulesLeftUntilDenial(i, rules, allowed) == i < Len(rules) /\ allowed

\* line 77: after rule i the loop goes on while there is a next rule, whatever
\* hit returned
RulesLeft(i, rules, allowed) == i < Len(rules)

\* the loop of lines 77-80 over rules 1..stop, each hit on the table the one before left
RECURSIVE CheckLoop(_, _, _, _, _, _)
CheckLoop(acc, key, scope, rules, now, stop) ==
    LET i == Len(acc.results) + 1
    IN  IF i > stop
        THEN acc
        ELSE LET h == Hit(acc.tbl, key, scope, rules[i], now)
             IN  CheckLoop([tbl     |-> h.tbl,
                            results |-> Append(acc.results,
                                          [allowed |-> h.allowed, retry_after |-> h.retry_after]),
                            swept   |-> acc.swept \cup h.swept],
                           key, scope, rules, now, stop)

\* self._policy.get(scope): no entry, or an empty one, is "not rules"
PolicyRules(pol, scope) == IF scope \in DOMAIN pol THEN pol[scope] ELSE <<>>

\* check as a whole, as one caller runs it with nothing in between; `stop` is the
\* number of hit calls that return before the call ends: Len(rules) when it
\* returns, fewer when an exception ends it early (raised is then TRUE)
Check(tbl, pol, scope, client_key, now, stop, raised) ==
    LET rules == PolicyRules(pol, scope)
        run   == CheckLoop([tbl |-> tbl, results |-> <<>>, swept |-> {}],
                           client_key, scope, rules, now, stop)
    IN  [tbl |-> run.tbl, results |-> run.results, swept |-> run.swept, raised |-> raised,
         result |-> IF raised THEN [allowed |-> FALSE, retry_after |-> 0]
                    ELSE CheckResult(run.results)]

----------------------------------------------------------------------------
(* Request-level helpers: security.py 100-211, main.py 69-165 *)

\* int(text): a header or environment string is [kind, val], kind "int" for
\* text that int() accepts and val its value, "junk" for text it rejects
ParseInt(text) ==
    IF text.kind = "int" THEN [ok |-> TRUE, val |-> text.val] ELSE [ok |-> FALSE, val |-> 0]

IntText(n) == [kind |-> "int", val |-> n]
JunkText == [kind |-> "junk", val |-> 0]
NoText == [kind |-> "absent", val |-> 0]

\* the configured number taken as it is, without the floor of line 107
GetRequestBodyLimitBytesNoFloor(env) ==
    LET raw    == IF env.kind = "absent" THEN IntText(65536) ELSE env
        parsed == ParseInt(raw)
    IN  IF ~parsed.ok THEN 65536 ELSE parsed.val

\* min for max in line 107
GetRequestBodyLimitBytesCeiling(env) ==
    LET raw    == IF env.kind = "absent" THEN IntText(65536) ELSE env
        parsed == ParseInt(raw)
    IN  IF ~parsed.ok THEN 65536 ELSE IF parsed.val <= 1024 THEN parsed.val ELSE 1024

\* os.getenv("MAX_REQUEST_BODY_BYTES", "65536"), then lines 102-107
GetRequestBodyLimitBytes(env) ==
    LET raw    == IF env.kind = "absent" THEN IntText(65536) ELSE env
        parsed == ParseInt(raw)
    IN  IF ~parsed.ok THEN 65536 ELSE Max(parsed.val, 1024)

NoScope == "none"

ResolveRateLimitScope(path) ==
    CASE path = "/generate_response" -> "generate_response"
      [] path = "/feedback/thumb"    -> "feedback_thumb"
      [] path = "/feedback/edit"     -> "feedback_edit"
      [] OTHER                       -> NoScope

\* str.strip() on the header texts the requests carry
Strip(text) ==
    CASE text = " "         -> ""
      [] text = " 5.6.7.8 " -> "5.6.7.8"
      [] text = " 1.2.3.4"  -> "1.2.3.4"
      [] OTHER              -> text

\* line 160: the parts of the header, stripped, the empty ones dropped
StrippedParts(parts) ==
    LET stripped == [i \in 1..Len(parts) |-> Strip(parts[i])]
    IN  SelectSeq(stripped, LAMBDA part : part # "")

\* the proxy headers obeyed whatever TRUST_PROXY_HEADERS says
ExtractClientIpAlwaysTrust(forwarded_for, real_ip, host, trust) ==
    IF Len(StrippedParts(forwarded_for)) > 0 THEN StrippedParts(forwarded_for)[1]
    ELSE IF real_ip # "" /\ Strip(real_ip) # "" THEN Strip(real_ip)
    ELSE IF host # "" THEN host
    ELSE "unknown"

\* forwarded_for is the X-Forwarded-For header split at its commas (<<>> when
\* the header is missing or empty), real_ip the X-Real-IP header and host the
\* connection address ("" when missing)
ExtractClientIp(forwarded_for, real_ip, host, trust) ==
    IF trust /\ Len(StrippedParts(forwarded_for)) > 0 THEN StrippedParts(forwarded_for)[1]
    ELSE IF trust /\ real_ip # "" /\ Strip(real_ip) # "" THEN Strip(real_ip)
    ELSE IF host # "" THEN host
    ELSE "unknown"

\* uuid4().hex, the n-th one drawn: distinct and non-empty
RequestIds == <<"0a1f", "1b2e", "2c3d", "3d4c", "4e5b", "5f6a", "6a79", "7b88", "8c97", "9da6">>
Uuid4Hex(n) == RequestIds[n]

\* a new identifier drawn whatever the request carries
GetRequestIdFresh(state_request_id, fresh) == fresh

\* get_request_id: request.state.request_id when it is a non-empty string,
\* else a freshly drawn identifier
GetRequestId(state_request_id, fresh) ==
    IF state_request_id # "" THEN state_request_id ELSE fresh

SecurityHeaders(request_id, report_only) ==
    [h \in {"X-Request-ID", "X-Content-Type-Options", "X-Frame-Options", "Referrer-Policy",
            IF report_only THEN "Content-Security-Policy-Report-Only"
                           ELSE "Content-Security-Policy"} |->
        CASE h = "X-Request-ID"           -> request_id
          [] h = "X-Content-Type-Options" -> "nosniff"
          [] h = "X-Frame-Options"        -> "DENY"
          [] h = "Referrer-Policy"        -> "no-referrer"
          [] OTHER -> "default-src 'none'; frame-ancestors 'none'; base-uri 'none'; form-action 'none'"]

\* the Retry-After header: <<n>> for str(n), n an int, and <<>> for no header
NoRetryAfter == <<>>

\* error_response and error_payload: error_request_id is error.request_id of
\* the body, which the envelope carries only when request_id is non-empty ("" is
\* a body without it); the response has no security header yet
ErrorResponse(status, code, message, request_id, retry_after) ==
    [status |-> status, code |-> code, message |-> message, by |-> "middleware",
     error_request_id |-> IF request_id # "" THEN request_id ELSE "",
     retry_after |-> retry_after,
     headers |-> <<>>]

\* both content-security-policy headers set, whatever the configuration
ApplyResponseSecurityHeadersBothCsp(response, request_id, report_only) ==
    [response EXCEPT !.headers =
        [h \in DOMAIN SecurityHeaders(request_id, TRUE) \cup DOMAIN SecurityHeaders(request_id, FALSE) |->
            IF h \in DOMAIN SecurityHeaders(request_id, TRUE)
            THEN SecurityHeaders(request_id, TRUE)[h]
            ELSE SecurityHeaders(request_id, FALSE)[h]]]

\* _apply_response_security_headers
ApplyResponseSecurityHeaders(response, request_id, report_only) ==
    [response EXCEPT !.headers = SecurityHeaders(request_id, report_only)]

CreateRequestTooLargeResponse(request_id, report_only) ==
    ApplyResponseSecurityHeaders(
        ErrorResponse(413, "payload_too_large", "Request body too large.", request_id,
                      NoRetryAfter),
        request_id, report_only)

CreateNotAllowedResponse(request_id, retry_after, report_only) ==
    ApplyResponseSecurityHeaders(
        ErrorResponse(429, "rate_limited", "Too many requests.", request_id, <<retry_after>>),
        request_id, report_only)

LimiterUnavailableResponse(request_id, report_only) ==
    ApplyResponseSecurityHeaders(
        ErrorResponse(503, "rate_limiter_unavailable",
                      "Request could not be evaluated for rate limiting.", request_id,
                      NoRetryAfter),
        request_id, report_only)

NoResponse == [status |-> 0, code |-> "", message |-> "", by |-> "", error_request_id |-> "",
               retry_after |-> NoRetryAfter, headers |-> <<>>]

BodyMethods == {"POST", "PUT", "PATCH"}

\* the comparison of line 104 inverted
ValidatePayloadTooLargeInverted(content_length, limit) ==
    IF content_length.kind \in {"absent", "empty"}
    THEN FALSE
    ELSE LET parsed == ParseInt(content_length)
         IN  parsed.ok /\ parsed.val < limit

\* validate_payload_too_large: TRUE when it returns the 413 response
ValidatePayloadTooLarge(content_length, limit) ==
    IF content_length.kind \in {"absent", "empty"}
    THEN FALSE
    ELSE LET parsed == ParseInt(content_length)
         IN  parsed.ok /\ parsed.val > limit

\* the limit tested against what is buffered so far, not against what was read
OverLimitBuffered(read_bytes, buffered, limit) == buffered > limit

\* _read_request_body_with_limit, line 160
OverLimit(read_bytes, buffered, limit) == read_bytes > limit

----------------------------------------------------------------------------
(* SpecStore: NumThreads threads of one client call check for one scope,    *)
(* each reading `now` first and then calling hit once per rule; a hit is    *)
(* one step, its body running under the store's lock.                       *)

Client == "10.0.0.1"
StoreScope == "generate_response"

StorePolicies == {<<<<1, "second">>>>, <<<<2, "second">>>>, <<<<1, "second">>, <<2, "minute">>>>}

Backgrounds == {[n |-> 0, expiry |-> 3600], [n |-> CleanupThreshold - 2, expiry |-> 3600],
                [n |-> CleanupThreshold - 2, expiry |-> 60]}

NoResult == [allowed |-> FALSE, retry_after |-> -1]

IdleThread == [pc |-> "idle", now |-> <<0, 0>>, results |-> <<>>, result |-> NoResult]

InitStore ==
    /\ \E g \in StorePolicies : policy = BuildRateLimitPolicy(g)
    /\ clock = <<0, 0>>
    /\ counts = <<>>
    /\ bg \in Backgrounds
    /\ evicted = {}
    /\ thr = [t \in 1..NumThreads |-> IdleThread]
    /\ lock = 0
    /\ cfg = [max_request_body_bytes |-> NoText, body_limit_bytes |-> 65536,
              trust_proxy_headers |-> FALSE, csp_report_only |-> TRUE]
    /\ profile = [nreq |-> 0]
    /\ req = <<>>
    /\ order = <<>>

Tick ==
    /\ \E t \in TimePoints : Before(clock, t) /\ clock' = t
    /\ UNCHANGED <<policy, counts, bg, evicted, thr, lock, cfg, profile, req, order>>

\* check, lines 71-75: threads are interchangeable, so they start in index order
ThreadCall(t) ==
    /\ thr[t].pc = "idle"
    /\ IF t = 1 THEN TRUE ELSE thr[t - 1].pc # "idle"
    /\ thr' = [thr EXCEPT ![t] = [pc |-> "hit", now |-> clock, results |-> <<>>,
                                  result |-> NoResult]]
    /\ UNCHANGED <<policy, clock, counts, bg, evicted, lock, cfg, profile, req, order>>

\* check, lines 77-83: one iteration of the loop, and the return after the last
ThreadHit(t) ==
    /\ thr[t].pc = "hit"
    /\ LET rules == policy[StoreScope]
           i     == Len(thr[t].results) + 1
           h     == Hit([counts |-> counts, bg |-> bg], Client, StoreScope, rules[i], thr[t].now)
           res   == Append(thr[t].results, [allowed |-> h.allowed, retry_after |-> h.retry_after])
       IN  /\ counts' = h.tbl.counts
           /\ bg' = h.tbl.bg
           /\ evicted' = evicted \cup h.swept
           /\ thr' = [thr EXCEPT ![t] =
                         IF RulesLeft(i, rules, h.allowed)
                         THEN [pc |-> "hit", now |-> thr[t].now, results |-> res,
                               result |-> NoResult]
                         ELSE [pc |-> "done", now |-> thr[t].now, results |-> res,
                               result |-> CheckResult(res)]]
    /\ UNCHANGED <<policy, clock, lock, cfg, profile, req, order>>

NextStore ==
    \/ Tick
    \/ \E t \in 1..NumThreads : ThreadCall(t)
    \/ \E t \in 1..NumThreads : ThreadHit(t)

SpecStore == InitStore /\ [][NextStore]_vars

----------------------------------------------------------------------------
(* SpecLock: the same threads with the lock of hit explicit.  A thread at pc   *)
(* "hit" stands at `with self._lock` (line 43); ThreadAcquire enters the       *)
(* block, ThreadCritical runs lines 44-50 and leaves it, by a return or by an  *)
(* exception raised while the table is written or swept.                       *)

LockPolicies == {<<<<1, "second">>>>, <<<<1, "second">>, <<2, "minute">>>>,
                 <<<<1, "second">>, <<1, "minute">>>>}

InitLock ==
    /\ \E g \in LockPolicies : policy = BuildRateLimitPolicy(g)
    /\ clock = <<0, 0>>
    /\ counts = <<>>
    /\ bg = [n |-> CleanupThreshold - 2, expiry |-> 60]
    /\ evicted = {}
    /\ thr = [t \in 1..NumThreads |-> IdleThread]
    /\ lock = 0
    /\ cfg = [max_request_body_bytes |-> NoText, body_limit_bytes |-> 65536,
              trust_proxy_headers |-> FALSE, csp_report_only |-> TRUE]
    /\ profile = [nreq |-> 0]
    /\ req = <<>>
    /\ order = <<>>

\* the lock released by hand on the two returns only: an exception keeps it held
WithLockExitReturnsOnly(holder, exit) == IF exit = "raised" THEN holder ELSE 0

\* line 43, __exit__ of `with self._lock`: the lock is released however the block
\* is left
WithLockExit(holder, exit) == 0

\* the ways the block can be left: the returns of lines 47 and 50, or an exception
\* after the write of line 48
HitExits(h) == IF h.allowed THEN {"admitted", "raised"} ELSE {"denied"}

\* line 43, __enter__: the lock is taken when free
ThreadAcquire(t) ==
    /\ thr[t].pc = "hit"
    /\ lock = 0
    /\ lock' = t
    /\ thr' = [thr EXCEPT ![t].pc = "locked"]
    /\ UNCHANGED <<policy, clock, counts, bg, evicted, cfg, profile, req, order>>

\* lines 44-50 under the lock, then check's loop (77-83) or the exception leaving it
ThreadCritical(t) ==
    /\ thr[t].pc = "locked"
    /\ LET rules == policy[StoreScope]
           i     == Len(thr[t].results) + 1
           b     == BucketOf(Client, StoreScope, rules[i], thr[t].now)
           h     == Hit([counts |-> counts, bg |-> bg], Client, StoreScope, rules[i], thr[t].now)
           res   == Append(thr[t].results, [allowed |-> h.allowed, retry_after |-> h.retry_after])
       IN  \E exit \in HitExits(h) :
              /\ lock' = WithLockExit(t, exit)
              /\ IF exit = "raised"
                 THEN /\ counts' = PutCount(counts, b, GetCount(counts, b) + 1)
                      /\ UNCHANGED <<bg, evicted>>
                      /\ thr' = [thr EXCEPT ![t].pc = "raised"]
                 ELSE /\ counts' = h.tbl.counts
                      /\ bg' = h.tbl.bg
                      /\ evicted' = evicted \cup h.swept
                      /\ thr' = [thr EXCEPT ![t] =
                                    IF RulesLeft(i, rules, h.allowed)
                                    THEN [pc |-> "hit", now |-> thr[t].now, results |-> res,
                                          result |-> NoResult]
                                    ELSE [pc |-> "done", now |-> thr[t].now, results |-> res,
                                          result |-> CheckResult(res)]]
    /\ UNCHANGED <<policy, clock, cfg, profile, req, order>>

NextLock ==
    \/ \E t \in 1..NumThreads : ThreadCall(t)
    \/ \E t \in 1..NumThreads : ThreadAcquire(t)
    \/ \E t \in 1..NumThreads : ThreadCritical(t)

SpecLock == InitLock /\ [][NextLock]_vars

\* every thread that can take a step is scheduled in the end, and a free lock with
\* a thread blocked on it is handed to it
LockFairness ==
    \A t \in 1..NumThreads : WF_vars(ThreadAcquire(t)) /\ WF_vars(ThreadCritical(t))

SpecLockFair == SpecLock /\ LockFairness

----------------------------------------------------------------------------
(* security_middleware: main.py 168-251.  A request runs from one await to   *)
(* the next in one step: the awaits are the reads of the body stream and     *)
(* call_next.  A step yields [rq, tbl, swept, checked]: the request's new    *)
(* state, the counter table, the buckets swept, whether check was called.    *)

MaxRequests == 3

NewRequest ==
    [pc |-> "new", method |-> "", path |-> "", host |-> "", forwarded_for |-> <<>>,
     real_ip |-> "", content_length |-> NoText, body_len |-> 0, has_body |-> FALSE,
     chunk_size |-> 0,
     request_id |-> "", state_request_id |-> "", client_ip |-> "",
     remaining |-> 0, reads |-> 0, read_bytes |-> 0, last_chunk |-> 0, buffered |-> 0,
     trail |-> <<>>, check_now |-> <<0, 0>>, check_results |-> <<>>,
     check_result |-> [allowed |-> FALSE, retry_after |-> 0],
     outcome |-> <<>>, response |-> NoResponse, logs |-> <<>>]

Table == [counts |-> counts, bg |-> bg]

Still(rq) == [rq |-> rq, tbl |-> Table, swept |-> {}, checked |-> FALSE]

Mark(rq, event) == [rq EXCEPT !.trail = Append(@, event)]

\* the values a log line of the middleware is formatted with
LogFields(event) ==
    CASE event = "payload_too_large_precheck" ->
             {"request_id", "path", "content_length", "body_limit_bytes"}
      [] event = "invalid_content_length_header" ->
             {"request_id", "path", "value", "body_limit_bytes"}
      [] event = "payload_too_large_stream" ->
             {"request_id", "path", "read_bytes", "body_limit_bytes"}
      [] event = "request_body_read_failed" -> {"request_id", "path", "body_limit_bytes"}
      [] event = "rate_limiter_check_failed" -> {"request_id", "path", "client_ip"}
      [] event = "rate_limited" -> {"request_id", "path", "client_ip", "retry_after"}
      [] event = "request_complete" ->
             {"request_id", "method", "path", "status_code", "duration_ms", "client_ip"}
      [] event = "unhandled_exception" -> {"request_id", "path"}

\* one logger call: status_code is the value logged under that name, 0 on a
\* line that has none
Log(rq, event, request_id, status_code) ==
    [rq EXCEPT !.logs = Append(@, [event |-> event, request_id |-> request_id,
                                   fields |-> LogFields(event),
                                   status_code |-> status_code])]

\* the limiter consulted before the body guard has finished: the rejected request
\* is counted
RejectTooLargeCounted(rq) ==
    LET scope == ResolveRateLimitScope(rq.path)
        c     == Check(Table, policy, scope, rq.host, clock,
                       Len(PolicyRules(policy, scope)), FALSE)
    IN  [rq |-> [rq EXCEPT !.pc = "done",
                           !.response = CreateRequestTooLargeResponse(rq.request_id,
                                                                      cfg.csp_report_only)],
         tbl |-> c.tbl, swept |-> c.swept, checked |-> FALSE]

\* lines 200 and 208, and 185: the 413 response is returned
RejectTooLarge(rq) ==
    Still([rq EXCEPT !.pc = "done",
                     !.response = CreateRequestTooLargeResponse(rq.request_id,
                                                                cfg.csp_report_only)])

\* line 239, up to the await
CallNext(rq) == [Mark(rq, "call_next") EXCEPT !.pc = "handling"]

\* a denial that logs and builds no response: the request goes on to call_next
AfterCheckNoReturn(rq, c) ==
    IF c.raised
    THEN [Log(Mark(rq, "check_raised"), "rate_limiter_check_failed", rq.request_id, 0) EXCEPT
             !.pc = "done",
             !.response = LimiterUnavailableResponse(rq.request_id, cfg.csp_report_only)]
    ELSE IF ~c.result.allowed
    THEN CallNext(Log(Mark(rq, "check_denied"), "rate_limited", rq.request_id, 0))
    ELSE CallNext(Mark(rq, "check_admitted"))

\* an exception of check that is logged and swallowed: the request goes on to call_next
AfterCheckFailOpen(rq, c) ==
    IF c.raised
    THEN CallNext(Log(Mark(rq, "check_raised"), "rate_limiter_check_failed", rq.request_id, 0))
    ELSE IF ~c.result.allowed
    THEN [Log(Mark(rq, "check_denied"), "rate_limited", rq.request_id, 0) EXCEPT
             !.pc = "done",
             !.response = CreateNotAllowedResponse(rq.request_id, c.result.retry_after,
                                                   cfg.csp_report_only)]
    ELSE CallNext(Mark(rq, "check_admitted"))

\* lines 214-239: what follows the call of check
AfterCheck(rq, c) ==
    IF c.raised
    THEN [Log(Mark(rq, "check_raised"), "rate_limiter_check_failed", rq.request_id, 0) EXCEPT
             !.pc = "done",
             !.response = LimiterUnavailableResponse(rq.request_id, cfg.csp_report_only)]
    ELSE IF ~c.result.allowed
    THEN [Log(Mark(rq, "check_denied"), "rate_limited", rq.request_id, 0) EXCEPT
             !.pc = "done",
             !.response = CreateNotAllowedResponse(rq.request_id, c.result.retry_after,
                                                   cfg.csp_report_only)]
    ELSE CallNext(Mark(rq, "check_admitted"))

\* the pre-flight method rate-limited like any other
RateLimitStageNoPreflightExemption(rq, stop, raised) ==
    LET scope == ResolveRateLimitScope(rq.path)
    IN  IF scope # NoScope
        THEN LET c == Check(Table, policy, scope, rq.client_ip, clock, stop, raised)
             IN  [rq |-> AfterCheck([rq EXCEPT !.check_now = clock,
                                               !.check_results = c.results,
                                               !.check_result = c.result], c),
                  tbl |-> c.tbl, swept |-> c.swept, checked |-> TRUE]
        ELSE Still(CallNext(rq))

\* lines 210-239
RateLimitStage(rq, stop, raised) ==
    LET scope == ResolveRateLimitScope(rq.path)
    IN  IF scope # NoScope /\ rq.method # "OPTIONS"
        THEN LET c == Check(Table, policy, scope, rq.client_ip, clock, stop, raised)
             IN  [rq |-> AfterCheck([rq EXCEPT !.check_now = clock,
                                               !.check_results = c.results,
                                               !.check_result = c.result], c),
                  tbl |-> c.tbl, swept |-> c.swept, checked |-> TRUE]
        ELSE Still(CallNext(rq))

\* how a call of check may end for this path: it returns after a hit per rule,
\* or (when the environment injects faults) raises after any number of them
CheckEndings(path) ==
    LET n == Len(PolicyRules(policy, ResolveRateLimitScope(path)))
    IN  {[stop |-> n, raised |-> FALSE]}
        \cup (IF profile.faults THEN {[stop |-> j, raised |-> TRUE] : j \in 0..n} ELSE {})

\* validate_payload_too_large, lines 113-120: a Content-Length that int() rejects
PrecheckPassed(rq) ==
    Mark(IF rq.content_length.kind = "junk"
         THEN Log(rq, "invalid_content_length_header", rq.request_id, 0)
         ELSE rq,
         "precheck_ok")

\* lines 170-185, then _read_request_body_with_limit 148-156 up to the first read
Arrive(rq0, ending) ==
    IF rq0.method \in BodyMethods
    THEN IF ValidatePayloadTooLarge(rq0.content_length, cfg.body_limit_bytes)
         THEN RejectTooLarge(Log(rq0, "payload_too_large_precheck", rq0.request_id, 0))
         ELSE LET rq == PrecheckPassed(rq0)
              IN  IF rq.has_body
                  THEN IF rq.body_len > cfg.body_limit_bytes
                       THEN RejectTooLarge(Log(rq, "payload_too_large_stream",
                                               rq.request_id, 0))
                       ELSE RateLimitStage(Mark(rq, "body_ok"), ending.stop, ending.raised)
                  ELSE Still([rq EXCEPT !.pc = "reading", !.remaining = rq.body_len])
    ELSE RateLimitStage(rq0, ending.stop, ending.raised)

\* one turn of the loop of lines 156-162 on a chunk of `size` bytes
ReadChunk(rq, size) ==
    LET rq1 == [rq EXCEPT !.reads = @ + 1, !.remaining = @ - size]
    IN  IF size = 0
        THEN Still(rq1)
        ELSE LET rq2 == [rq1 EXCEPT !.read_bytes = @ + size, !.last_chunk = size]
             IN  IF OverLimit(rq2.read_bytes, rq2.buffered, cfg.body_limit_bytes)
                 THEN RejectTooLarge(Log(rq2, "payload_too_large_stream", rq2.request_id, 0))
                 ELSE Still([rq2 EXCEPT !.buffered = @ + size])

\* the stream ends: line 165, then lines 210-239
EndOfBody(rq, ending) ==
    RateLimitStage(Mark([rq EXCEPT !.has_body = TRUE], "body_ok"), ending.stop, ending.raised)

\* the threshold of line 217 one too high: a 500 is handled as a request error
HttpExceptionHandlerAbove500(request_id, status_code, detail) ==
    IF status_code > 500
    THEN ErrorResponse(status_code, "internal_error", "Internal server error.", request_id,
                       NoRetryAfter)
    ELSE ErrorResponse(status_code, "request_error",
                       IF Strip(detail) # "" THEN detail ELSE "Request failed.",
                       request_id, NoRetryAfter)

\* http_exception_handler; detail is exc.detail, "" when it is not a string
HttpExceptionHandler(request_id, status_code, detail) ==
    IF status_code >= 500
    THEN ErrorResponse(status_code, "internal_error", "Internal server error.", request_id,
                       NoRetryAfter)
    ELSE ErrorResponse(status_code, "request_error",
                       IF Strip(detail) # "" THEN detail ELSE "Request failed.",
                       request_id, NoRetryAfter)

ValidationExceptionHandler(request_id) ==
    ErrorResponse(422, "validation_error", "Invalid request payload.", request_id, NoRetryAfter)

UnhandledExceptionHandler(request_id) ==
    ErrorResponse(500, "internal_error", "Internal server error.", request_id, NoRetryAfter)

\* the identifier an exception handler reads with get_request_id(request): the
\* next one drawn after those of the requests, should it draw one
HandlerRequestId(rq, n) == GetRequestId(rq.state_request_id, Uuid4Hex(n))

\* what comes back through call_next: the route's own response, or that of the
\* exception handler its exception is routed to.  An outcome of the route is
\* <<kind, status code, exception text>>
HandlerResponse(rq, outcome, n) ==
    [(CASE outcome[1] = "http_exception" ->
              HttpExceptionHandler(HandlerRequestId(rq, n), outcome[2], outcome[3])
        [] outcome[1] = "validation_error" ->
              ValidationExceptionHandler(HandlerRequestId(rq, n))
        [] outcome[1] = "exception" ->
              UnhandledExceptionHandler(HandlerRequestId(rq, n))
        [] OTHER ->
              [NoResponse EXCEPT !.status = outcome[2]])
     EXCEPT !.by = "handler"]

\* the quota of a request given back when its handler fails
CompleteRefundsFailure(rq, outcome, n) ==
    LET response == ApplyResponseSecurityHeaders(HandlerResponse(rq, outcome, n),
                                                 rq.request_id, cfg.csp_report_only)
        scope    == ResolveRateLimitScope(rq.path)
        rules    == PolicyRules(policy, scope)
        mine     == {BucketOf(rq.client_ip, scope, rules[i], rq.check_now) :
                        i \in {j \in 1..Len(rq.check_results) : rq.check_results[j].allowed}}
        refunded == [b \in DOMAIN counts |->
                        IF b \in mine /\ response.status >= 500
                        THEN counts[b] - 1 ELSE counts[b]]
    IN  [rq |-> [Log(rq, "request_complete", rq.request_id, response.status) EXCEPT
                    !.pc = "done", !.outcome = outcome, !.response = response],
         tbl |-> [counts |-> refunded, bg |-> bg], swept |-> {}, checked |-> FALSE]

\* lines 239-251, after the await
Complete(rq, outcome, n) ==
    LET response == ApplyResponseSecurityHeaders(HandlerResponse(rq, outcome, n),
                                                 rq.request_id, cfg.csp_report_only)
    IN  Still([Log(rq, "request_complete", rq.request_id, response.status) EXCEPT
                  !.pc = "done", !.outcome = outcome, !.response = response])

\* line 239 when the await raises: the exception leaves the middleware, which
\* returns no response and logs nothing; unhandled_exception_handler answers
Abort(rq, outcome, n) ==
    Still([Log(rq, "unhandled_exception", HandlerRequestId(rq, n), 0) EXCEPT
              !.pc = "raised", !.outcome = outcome,
              !.response = [UnhandledExceptionHandler(HandlerRequestId(rq, n)) EXCEPT
                               !.by = "server_error"]])

Commit(r, out) ==
    /\ req' = [req EXCEPT ![r] = out.rq]
    /\ counts' = out.tbl.counts
    /\ bg' = out.tbl.bg
    /\ evicted' = evicted \cup out.swept
    /\ order' = IF out.checked THEN Append(order, r) ELSE order
    /\ UNCHANGED <<policy, clock, thr, lock, cfg, profile>>

\* requests are interchangeable, so they arrive in index order, and one after
\* the other's response when the profile is sequential.  A target is
\* <<method, path>>, a payload <<Content-Length header, <<body length, size of
\* the chunks the transport delivers>>, whether request._body is already set>>;
\* a method that carries no body arrives without one
NoPayload == <<NoText, 0, FALSE, 0>>

\* a request without X-Forwarded-For and X-Real-IP
NoProxyHeaders == <<<<>>, "">>

\* the route returns its result
Returns200 == <<"return", 200, "">>

Payloads == {<<p[1], p[2][1], p[3], p[2][2]>> : p \in profile.payloads}

Receive(r) ==
    /\ r <= profile.nreq
    /\ req[r].pc = "new"
    /\ IF r = 1 THEN TRUE
       ELSE IF profile.sequential THEN req[r - 1].pc \in {"done", "raised"}
       ELSE req[r - 1].pc # "new"
    /\ \E t \in profile.targets, h \in profile.hosts, b \in Payloads \cup {NoPayload},
          x \in profile.proxy_headers :
          /\ IF t[1] \in BodyMethods THEN b \in Payloads ELSE b = NoPayload
          /\ \E ending \in CheckEndings(t[2]) :
                Commit(r, Arrive([NewRequest EXCEPT
                                    !.method = t[1], !.path = t[2], !.host = h,
                                    !.forwarded_for = x[1], !.real_ip = x[2],
                                    !.content_length = b[1], !.body_len = b[2],
                                    !.has_body = b[3], !.chunk_size = b[4],
                                    !.request_id = Uuid4Hex(r),
                                    !.state_request_id = Uuid4Hex(r),
                                    !.client_ip = ExtractClientIp(x[1], x[2], h,
                                                                  cfg.trust_proxy_headers)],
                                 ending))

Min(a, b) == IF a <= b THEN a ELSE b

\* the next chunk of the stream: the transport's chunk size or what is left of
\* the body, or an empty chunk (only before the first bytes, so that the reads
\* stay bounded)
StreamChunk(r) ==
    /\ req[r].pc = "reading"
    /\ \E size \in {0, Min(req[r].chunk_size, req[r].remaining)} :
          /\ IF size = 0 THEN req[r].reads = 0 /\ profile.empty_chunks ELSE TRUE
          /\ Commit(r, ReadChunk(req[r], size))

StreamEnd(r) ==
    /\ req[r].pc = "reading"
    /\ req[r].remaining = 0
    /\ \E ending \in CheckEndings(req[r].path) : Commit(r, EndOfBody(req[r], ending))

\* the failed read swallowed: the request goes on to call_next
ReadFailedDispatches(rq) == Still(CallNext(Mark(rq, "read_failed")))

\* lines 201-208: `except Exception` logs and returns the 413 response
ReadFailed(rq) ==
    RejectTooLarge(Log(Mark(rq, "read_failed"), "request_body_read_failed", rq.request_id, 0))

\* request.stream() raises on a read: lines 187-189 inside the try of line 187
StreamFail(r) ==
    /\ req[r].pc = "reading"
    /\ Commit(r, ReadFailed(req[r]))

\* call_next returns a response
HandlerReturn(r) ==
    /\ req[r].pc = "handling"
    /\ \E outcome \in profile.handler_outcomes :
          Commit(r, Complete(req[r], outcome, MaxRequests + r))

\* call_next raises the route's exception: whether an exception no handler
\* but the catch-all takes comes back as a response (HandlerReturn) or as an
\* exception is the framework's choice, and both are modelled
HandlerRaise(r) ==
    /\ req[r].pc = "handling"
    /\ \E outcome \in profile.handler_outcomes :
          /\ outcome[1] = "exception"
          /\ Commit(r, Abort(req[r], outcome, MaxRequests + r))

Requests == 1..MaxRequests

MiddlewareInit ==
    /\ clock = <<0, 0>>
    /\ counts = <<>>
    /\ evicted = {}
    /\ thr = <<>>
    /\ lock = 0
    /\ req = [r \in Requests |-> NewRequest]
    /\ order = <<>>

PipelinePolicies == {<<<<1, "minute">>>>, <<<<2, "second">>>>, <<<<1, "second">>, <<3, "minute">>>>}

PipelineRequests == 2

PipelineProfile ==
    [nreq |-> PipelineRequests,
     targets |-> {<<"POST", "/generate_response">>, <<"OPTIONS", "/generate_response">>,
                  <<"GET", "/health">>},
     hosts |-> {Client}, proxy_headers |-> {NoProxyHeaders},
     payloads |-> {<<NoText, <<100, 65536>>, FALSE>>, <<NoText, <<70000, 65536>>, FALSE>>,
                   <<IntText(70000), <<100, 65536>>, FALSE>>},
     empty_chunks |-> FALSE, faults |-> TRUE, sequential |-> FALSE,
     handler_outcomes |-> {Returns200, <<"http_exception", 503, "upstream timed out">>}]

\* main.py 54-57, from the environment variables MAX_REQUEST_BODY_BYTES,
\* TRUST_PROXY_HEADERS and CSP_REPORT_ONLY
Config(max_request_body_bytes, trust, report_only) ==
    [max_request_body_bytes |-> max_request_body_bytes,
     body_limit_bytes |-> GetRequestBodyLimitBytes(max_request_body_bytes),
     trust_proxy_headers |-> trust, csp_report_only |-> report_only]

Init ==
    /\ MiddlewareInit
    /\ \E g \in PipelinePolicies : policy = BuildRateLimitPolicy(g)
    /\ bg \in {[n |-> 0, expiry |-> 3600], [n |-> CleanupThreshold - 2, expiry |-> 60]}
    /\ cfg = Config(NoText, FALSE, TRUE)
    /\ profile = PipelineProfile

TickMw ==
    /\ \E t \in TimePoints : Before(clock, t) /\ clock' = t
    /\ UNCHANGED <<policy, counts, bg, evicted, thr, lock, cfg, profile, req, order>>

Next ==
    \/ TickMw
    \/ \E r \in Requests : Receive(r)
    \/ \E r \in Requests : StreamChunk(r)
    \/ \E r \in Requests : StreamEnd(r)
    \/ \E r \in Requests : StreamFail(r)
    \/ \E r \in Requests : HandlerReturn(r)

Spec == Init /\ [][Next]_vars

(* SpecSeq: up to MaxRequests requests of one client to POST /generate_response *)
SequenceProfile ==
    [nreq |-> MaxRequests,
     targets |-> {<<"POST", "/generate_response">>},
     hosts |-> {Client}, proxy_headers |-> {NoProxyHeaders},
     payloads |-> {<<NoText, <<100, 65536>>, FALSE>>},
     empty_chunks |-> FALSE, faults |-> TRUE, sequential |-> TRUE,
     handler_outcomes |-> {Returns200}]

SequencePolicies == {<<<<1, "minute">>>>, <<<<2, "second">>>>, <<<<2, "minute">>>>,
                     <<<<1, "second">>, <<2, "minute">>>>, <<<<2, "minute">>, <<3, "minute">>>>}

InitSeq ==
    /\ MiddlewareInit
    /\ \E g \in SequencePolicies : policy = BuildRateLimitPolicy(g)
    /\ bg = [n |-> CleanupThreshold - 2, expiry |-> 60]
    /\ cfg = Config(NoText, FALSE, TRUE)
    /\ profile = SequenceProfile

SpecSeq == InitSeq /\ [][Next]_vars

(* SpecBody: the body guard on requests of every shape, under each setting of *)
(* MAX_REQUEST_BODY_BYTES                                                      *)
BodyRequests == 1

BodyLimitSettings == {NoText, JunkText, IntText(-1), IntText(0), IntText(150), IntText(1023),
                      IntText(1024), IntText(2000)}

BodyProfile ==
    [nreq |-> BodyRequests,
     targets |-> {<<"POST", "/generate_response">>, <<"PUT", "/health">>, <<"GET", "/health">>},
     hosts |-> {Client}, proxy_headers |-> {NoProxyHeaders},
     payloads |-> {NoText, JunkText, IntText(500), IntText(70000)}
                  \X {<<500, 1024>>, <<1100, 1024>>, <<2500, 1024>>, <<70000, 16384>>,
                      <<70000, 65536>>}
                  \X BOOLEAN,
     empty_chunks |-> TRUE, faults |-> FALSE, sequential |-> TRUE,
     handler_outcomes |-> {Returns200}]

InitBody ==
    /\ MiddlewareInit
    /\ policy = BuildRateLimitPolicy(<<<<5, "minute">>, <<30, "hour">>>>)
    /\ bg = [n |-> 0, expiry |-> 3600]
    /\ \E e \in BodyLimitSettings : cfg = Config(e, FALSE, TRUE)
    /\ profile = BodyProfile

\* the body guard reads no clock
NextBody ==
    \/ \E r \in Requests : Receive(r)
    \/ \E r \in Requests : StreamChunk(r)
    \/ \E r \in Requests : StreamEnd(r)
    \/ \E r \in Requests : StreamFail(r)
    \/ \E r \in Requests : HandlerReturn(r)

SpecBody == InitBody /\ [][NextBody]_vars

(* SpecHttp: requests of one client, one after the other, through every way   *)
(* out of the middleware and every kind of result of the route behind it,     *)
(* under each setting of CSP_REPORT_ONLY                                      *)
HttpRequests == 2

\* generate.py 51-71 and generation_service.py 57-58: the exceptions
\* generate_response raises, a request body the schema rejects, and an exception
\* no handler but the catch-all takes
HandlerOutcomes ==
    {Returns200,
     <<"http_exception", 400, "Unknown model_id: gpt-x">>,
     <<"http_exception", 401, " ">>,
     <<"http_exception", 503, "provider timeout: key sk-123">>,
     <<"http_exception", 500, "stack: generate() line 62">>,
     <<"http_exception", 504, "LLM request timed out">>,
     <<"validation_error", 422, "">>,
     <<"exception", 500, "KeyError: 'submission'">>}

HttpProfile ==
    [nreq |-> HttpRequests,
     targets |-> {<<"POST", "/generate_response">>, <<"OPTIONS", "/generate_response">>,
                  <<"GET", "/health">>},
     hosts |-> {Client}, proxy_headers |-> {NoProxyHeaders},
     payloads |-> {<<NoText, <<100, 65536>>, FALSE>>, <<NoText, <<70000, 65536>>, FALSE>>,
                   <<IntText(70000), <<100, 65536>>, FALSE>>},
     empty_chunks |-> FALSE, faults |-> TRUE, sequential |-> TRUE,
     handler_outcomes |-> HandlerOutcomes]

HttpPolicies == {<<<<1, "minute">>>>, <<<<2, "hour">>, <<1, "minute">>>>}

InitHttp ==
    /\ MiddlewareInit
    /\ \E g \in HttpPolicies : policy = BuildRateLimitPolicy(g)
    /\ bg = [n |-> 0, expiry |-> 3600]
    /\ \E report_only \in BOOLEAN : cfg = Config(NoText, FALSE, report_only)
    /\ profile = HttpProfile

NextHttp ==
    \/ \E r \in Requests : Receive(r)
    \/ \E r \in Requests : StreamChunk(r)
    \/ \E r \in Requests : StreamEnd(r)
    \/ \E r \in Requests : StreamFail(r)
    \/ \E r \in Requests : HandlerReturn(r)
    \/ \E r \in Requests : HandlerRaise(r)

SpecHttp == InitHttp /\ [][NextHttp]_vars

(* SpecProxy: requests from several connection addresses, some from none,     *)
(* carrying X-Forwarded-For and X-Real-IP headers or not, under each setting  *)
(* of TRUST_PROXY_HEADERS                                                     *)
ProxyRequests == 2

ProxyProfile ==
    [nreq |-> ProxyRequests,
     targets |-> {<<"POST", "/generate_response">>},
     hosts |-> {Client, "10.0.0.2", ""},
     proxy_headers |-> {NoProxyHeaders, <<<<"1.2.3.4">>, "">>,
                        <<<<" ", " 1.2.3.4">>, " 5.6.7.8 ">>, <<<<>>, " 5.6.7.8 ">>},
     payloads |-> {<<NoText, <<100, 65536>>, FALSE>>},
     empty_chunks |-> FALSE, faults |-> FALSE, sequential |-> TRUE,
     handler_outcomes |-> {Returns200}]

InitProxy ==
    /\ MiddlewareInit
    /\ policy = BuildRateLimitPolicy(<<<<1, "minute">>>>)
    /\ bg = [n |-> 0, expiry |-> 3600]
    /\ \E trust \in BOOLEAN : cfg = Config(NoText, trust, TRUE)
    /\ profile = ProxyProfile

NextProxy ==
    \/ \E r \in Requests : Receive(r)
    \/ \E r \in Requests : StreamChunk(r)
    \/ \E r \in Requests : StreamEnd(r)
    \/ \E r \in Requests : StreamFail(r)
    \/ \E r \in Requests : HandlerReturn(r)

SpecProxy == InitProxy /\ [][NextProxy]_vars

----------------------------------------------------------------------------
(* SpecShare: requests of two clients to two scopes, in any order and at any   *)
(* times, on a table two buckets short of the eviction threshold.  The bodies  *)
(* are already cached, so a request runs precheck, check and call_next in one  *)
(* step; check has no await, so the checks of concurrent requests run one      *)
(* after the other in some order, which is the order taken here.               *)

SharePolicies == {<<<<1, "second">>>>, <<<<1, "second">>, <<2, "minute">>>>}

ShareProfile ==
    [nreq |-> MaxRequests,
     targets |-> {<<"POST", "/generate_response">>, <<"POST", "/feedback/thumb">>},
     hosts |-> {Client, "10.0.0.2"}, proxy_headers |-> {NoProxyHeaders},
     payloads |-> {<<NoText, <<100, 65536>>, TRUE>>},
     empty_chunks |-> FALSE, faults |-> FALSE, sequential |-> TRUE,
     handler_outcomes |-> {Returns200}]

InitShare ==
    /\ MiddlewareInit
    /\ \E g \in SharePolicies : policy = BuildRateLimitPolicy(g)
    /\ bg = [n |-> CleanupThreshold - 2, expiry |-> 3600]
    /\ cfg = Config(NoText, FALSE, TRUE)
    /\ profile = ShareProfile

NextShare ==
    \/ TickMw
    \/ \E r \in Requests : Receive(r)
    \/ \E r \in Requests : HandlerReturn(r)

SpecShare == InitShare /\ [][NextShare]_vars

----------------------------------------------------------------------------
(* What the threads of SpecStore have seen, read off their results *)

StoreRules == policy[StoreScope]

\* the hit calls made so far: <<t, i>> is thread t's call for rule i
HitCalls == {c \in (1..NumThreads) \X (1..Len(StoreRules)) : c[2] <= Len(thr[c[1]].results)}

Admissions == {c \in HitCalls : thr[c[1]].results[c[2]].allowed}

CallBucket(c) == BucketOf(Client, StoreScope, StoreRules[c[2]], thr[c[1]].now)

RuleBuckets(i) == {BucketOf(Client, StoreScope, StoreRules[i], tp) : tp \in TimePoints}

AdmittedOn(i, bucket) == Cardinality({c \in Admissions : c[2] = i /\ CallBucket(c) = bucket})

DeniedOn(i, bucket) ==
    Cardinality({c \in HitCalls \ Admissions : c[2] = i /\ CallBucket(c) = bucket})

\* the threads that have read a `now` in the bucket's window, and those of them
\* whose hit for rule i has returned
CallersOf(i, bucket) ==
    {t \in 1..NumThreads :
        thr[t].pc # "idle" /\ BucketOf(Client, StoreScope, StoreRules[i], thr[t].now) = bucket}

ReturnedOf(i, bucket) == {t \in CallersOf(i, bucket) : Len(thr[t].results) >= i}

ClockInWindow(bucket) == bucket[4] <= IntPart(clock) /\ IntPart(clock) < bucket[4] + bucket[3]

\* admissions of rule i whose `now` lies in the W seconds that start at `from`
AdmittedWithin(i, from) ==
    Cardinality({c \in Admissions :
        /\ c[2] = i
        /\ ~Before(thr[c[1]].now, from)
        /\ Before(thr[c[1]].now, <<from[1] + StoreRules[i].window_seconds, from[2]>>)})

----------------------------------------------------------------------------
(* C1: for any one bucket, across every interleaving of concurrent hit calls *)
(* (each reading its own `now` before it takes the lock, sweeps running in   *)
(* between), the number of hits admitted for that bucket never exceeds       *)
(* rule.limit.                                                               *)
C1_AdmissionsPerBucketWithinLimit ==
    \A i \in 1..Len(StoreRules) : \A b \in RuleBuckets(i) :
        AdmittedOn(i, b) <= StoreRules[i].limit

(* C2: when K > N hit calls for one client, scope and rule run concurrently  *)
(* in one window on a bucket with no earlier hits, then once all K have      *)
(* returned exactly N were admitted and exactly K - N denied.                *)
C2_ExactlyLimitAdmitted ==
    \A i \in 1..Len(StoreRules) : \A b \in RuleBuckets(i) :
        (/\ ClockInWindow(b)
         /\ ReturnedOf(i, b) = CallersOf(i, b)
         /\ Cardinality(CallersOf(i, b)) > StoreRules[i].limit)
        => /\ AdmittedOn(i, b) = StoreRules[i].limit
           /\ DeniedOn(i, b) = Cardinality(CallersOf(i, b)) - StoreRules[i].limit

C2_Witness ==
    \E i \in 1..Len(StoreRules) : \E b \in RuleBuckets(i) :
        /\ ClockInWindow(b)
        /\ ReturnedOf(i, b) = CallersOf(i, b)
        /\ Cardinality(CallersOf(i, b)) = NumThreads
        /\ StoreRules[i].limit = 2
        /\ AdmittedOn(i, b) = 2
        /\ DeniedOn(i, b) = NumThreads - 2

(* C3 as stated: at most N hits are admitted within any window of W seconds, *)
(* wherever the window starts.                                               *)
C3_AnyWindowWithinLimit ==
    \A i \in 1..Len(StoreRules) : \A t \in 1..NumThreads :
        thr[t].pc # "idle" => AdmittedWithin(i, thr[t].now) <= StoreRules[i].limit

(* C3 amended: at most N hits are admitted with `now` in any one aligned     *)
(* fixed window [k*W, (k+1)*W) whose bucket no sweep has removed, and so at  *)
(* most 2N within any W seconds while no bucket has been removed.            *)
C3_AlignedWindowWithinLimit ==
    /\ \A i \in 1..Len(StoreRules) : \A b \in RuleBuckets(i) \ evicted :
          AdmittedOn(i, b) <= StoreRules[i].limit
    /\ evicted = {} =>
          \A i \in 1..Len(StoreRules) : \A t \in 1..NumThreads :
              thr[t].pc # "idle" => AdmittedWithin(i, thr[t].now) <= 2 * StoreRules[i].limit

\* a window that straddles an aligned boundary holds more than N admissions,
\* a hit was denied in one of the aligned windows, and nothing was swept
C3_Witness ==
    /\ evicted = {}
    /\ \E i \in 1..Len(StoreRules) : \E t \in 1..NumThreads :
          /\ thr[t].pc # "idle"
          /\ AdmittedWithin(i, thr[t].now) > StoreRules[i].limit
          /\ \E b \in RuleBuckets(i) :
                AdmittedOn(i, b) = StoreRules[i].limit /\ DeniedOn(i, b) > 0

----------------------------------------------------------------------------
(* What the requests have been through, read off their trails *)

Has(rq, event) == \E i \in 1..Len(rq.trail) : rq.trail[i] = event

Times(rq, event) == Cardinality({i \in 1..Len(rq.trail) : rq.trail[i] = event})

Precedes(rq, first, second) ==
    \E i, j \in 1..Len(rq.trail) : i < j /\ rq.trail[i] = first /\ rq.trail[j] = second

Dispatched(rq) == Has(rq, "call_next")

RateLimited(rq) == ResolveRateLimitScope(rq.path) # NoScope /\ rq.method # "OPTIONS"

Checked(r) == \E i \in 1..Len(order) : order[i] = r

Position(r) == CHOOSE i \in 1..Len(order) : order[i] = r

\* the requests whose check ran before r's on the same bucket of a one-rule policy
EarlierInBucket(r) ==
    LET w == policy[ResolveRateLimitScope(req[r].path)][1].window_seconds
    IN  {q \in Requests :
            /\ Checked(q) /\ Position(q) < Position(r)
            /\ req[q].client_ip = req[r].client_ip
            /\ req[q].path = req[r].path
            /\ WindowStart(req[q].check_now, w) = WindowStart(req[r].check_now, w)}

Answered429(rq) ==
    /\ rq.pc = "done"
    /\ rq.response.status = 429
    /\ rq.response.code = "rate_limited"
    /\ rq.response.error_request_id # ""
    /\ rq.response.retry_after # NoRetryAfter
    /\ ~Dispatched(rq)

(* C4: under a one-rule policy of N per window, of the requests one client    *)
(* sends one after the other to the scope's path within one window, the first *)
(* N are dispatched and the next is answered 429 rate_limited with a          *)
(* non-empty error.request_id and a Retry-After header (no check raising).    *)
C4_FirstNDispatchedThen429 ==
    \A r \in Requests :
        (/\ Checked(r)
         /\ Len(policy[ResolveRateLimitScope(req[r].path)]) = 1
         /\ \A q \in EarlierInBucket(r) \cup {r} : ~Has(req[q], "check_raised"))
        => IF Cardinality(EarlierInBucket(r)) < policy[ResolveRateLimitScope(req[r].path)][1].limit
           THEN Dispatched(req[r]) /\ req[r].response.status # 429
           ELSE Answered429(req[r])

C4_Witness ==
    \E r \in Requests :
        /\ Checked(r)
        /\ policy[ResolveRateLimitScope(req[r].path)] = <<RateLimitRule(2, 60)>>
        /\ Cardinality(EarlierInBucket(r)) = 2
        /\ \A q \in EarlierInBucket(r) : req[q].pc = "done" /\ req[q].response.status = 200
        /\ Answered429(req[r])
        /\ req[r].response.retry_after[1] >= 1

(* C5: every denial reports an integer retry delay of at least 1: each        *)
(* denying hit, each denying check, and the Retry-After header of each 429.   *)
C5_DenialsReportAtLeastOne ==
    \A r \in Requests :
        /\ \A i \in 1..Len(req[r].check_results) :
              ~req[r].check_results[i].allowed
                 => req[r].check_results[i].retry_after \in Nat \ {0}
        /\ Has(req[r], "check_denied") => req[r].check_result.retry_after \in Nat \ {0}
        /\ req[r].response.status = 429 =>
              /\ Len(req[r].response.retry_after) = 1
              /\ req[r].response.retry_after[1] \in Nat \ {0}

\* a 429 at a fractional time, half a second before the window ends
C5_Witness ==
    \E r \in Requests :
        /\ req[r].response.status = 429
        /\ req[r].check_now = <<59, 1>>
        /\ \E i \in 1..Len(req[r].check_results) :
              ~req[r].check_results[i].allowed /\ req[r].check_results[i].retry_after = 1
        /\ req[r].response.retry_after = <<1>>

Decided(rq) == rq.pc \in {"handling", "done"}

Answered413(rq) ==
    /\ rq.pc = "done"
    /\ rq.response.status = 413
    /\ rq.response.code = "payload_too_large"
    /\ ~Dispatched(rq)

(* C6 as stated: a POST whose body is larger than the configured              *)
(* MAX_REQUEST_BODY_BYTES is rejected with 413 payload_too_large and not      *)
(* dispatched; so with 150 configured, a body of 500 bytes is rejected.       *)
C6_ConfiguredLimitEnforced ==
    \A r \in Requests :
        (/\ Decided(req[r])
         /\ req[r].method = "POST"
         /\ cfg.max_request_body_bytes.kind = "int"
         /\ req[r].body_len > cfg.max_request_body_bytes.val)
        => Answered413(req[r])

\* the limit in force: the configured number but never less than 1024, and
\* 65536 when none, or no number, is configured
LimitInForce ==
    IF cfg.max_request_body_bytes.kind = "int"
    THEN Max(cfg.max_request_body_bytes.val, 1024)
    ELSE 65536

(* C6 amended: a POST whose body is larger than the limit in force,           *)
(* max(MAX_REQUEST_BODY_BYTES, 1024), is rejected with 413 payload_too_large  *)
(* and not dispatched; with 150 configured the limit in force is 1024, and a  *)
(* body of 500 bytes with no oversized Content-Length, read without failure,  *)
(* passes the body guard.                                                     *)
C6_LimitInForceEnforced ==
    \A r \in Requests :
        /\ (Decided(req[r]) /\ req[r].method = "POST" /\ req[r].body_len > LimitInForce)
              => Answered413(req[r])
        /\ (/\ Decided(req[r])
            /\ req[r].method = "POST"
            /\ cfg.max_request_body_bytes = IntText(150)
            /\ req[r].body_len = 500
            /\ ~(req[r].content_length.kind = "int" /\ req[r].content_length.val > 1024)
            /\ ~Has(req[r], "read_failed"))
              => Has(req[r], "body_ok") /\ req[r].response.status # 413

\* under 150 configured, a streamed body of 1100 bytes is refused on its second chunk
C6_Witness ==
    /\ cfg.max_request_body_bytes = IntText(150)
    /\ \E r \in Requests :
          /\ req[r].method = "POST"
          /\ req[r].body_len = 1100
          /\ req[r].read_bytes = 1100
          /\ req[r].buffered = 1024
          /\ ~Has(req[r], "read_failed")
          /\ Answered413(req[r])

DeclaredTooLarge(rq) ==
    /\ rq.method \in BodyMethods
    /\ rq.content_length.kind = "int"
    /\ rq.content_length.val > LimitInForce

(* C7: a POST, PUT or PATCH whose Content-Length parses as an integer above   *)
(* the body limit is answered 413 with no read of the body stream: zero       *)
(* chunks and zero bytes consumed.                                            *)
C7_DeclaredTooLargeUnread ==
    \A r \in Requests :
        (req[r].pc # "new" /\ DeclaredTooLarge(req[r]))
        => Answered413(req[r]) /\ req[r].reads = 0 /\ req[r].read_bytes = 0

C7_Witness ==
    \E r \in Requests :
        /\ DeclaredTooLarge(req[r])
        /\ req[r].body_len > 0
        /\ ~req[r].has_body
        /\ Answered413(req[r])
        /\ req[r].reads = 0

Undeclared(rq) == rq.method \in BodyMethods /\ rq.content_length.kind = "absent"

(* C8: a POST, PUT or PATCH with no Content-Length whose streamed body        *)
(* exceeds the limit is answered 413; the read stops at the first chunk that  *)
(* takes the bytes read past the limit; the buffer never holds more than the  *)
(* limit.                                                                     *)
C8_StreamedBodyBounded ==
    \A r \in Requests :
        Undeclared(req[r]) =>
            /\ req[r].buffered <= LimitInForce
            /\ req[r].read_bytes - req[r].last_chunk <= LimitInForce
            /\ req[r].read_bytes > LimitInForce => Answered413(req[r])
            /\ (Decided(req[r]) /\ req[r].body_len > LimitInForce) => Answered413(req[r])

\* refused on the chunk after a buffered one
C8_Witness ==
    \E r \in Requests :
        /\ Undeclared(req[r])
        /\ Answered413(req[r])
        /\ req[r].buffered > 0
        /\ req[r].read_bytes > LimitInForce
        /\ req[r].read_bytes < req[r].body_len

ByMiddleware(rq, status) == rq.response.by = "middleware" /\ rq.response.status = status

BodyCheckPassed(rq) ==
    /\ ~DeclaredTooLarge(rq)
    /\ rq.body_len <= LimitInForce
    /\ Has(rq, "body_ok")

CheckAdmitted(rq) ==
    /\ Has(rq, "check_admitted")
    /\ Len(rq.check_results) = Len(PolicyRules(policy, ResolveRateLimitScope(rq.path)))
    /\ \A i \in 1..Len(rq.check_results) : rq.check_results[i].allowed

(* C9: no request the middleware answers with 413, 429 or 503 is passed to    *)
(* the handler; call_next runs at most once per request, and only after the   *)
(* body-size check has passed (POST, PUT, PATCH) and then the rate-limit      *)
(* check has admitted (scoped path, method not OPTIONS).                      *)
C9_RejectedNeverDispatched ==
    \A r \in Requests :
        /\ Times(req[r], "call_next") <= 1
        /\ (ByMiddleware(req[r], 413) \/ ByMiddleware(req[r], 429) \/ ByMiddleware(req[r], 503))
              => ~Dispatched(req[r])
        /\ Dispatched(req[r]) =>
              /\ req[r].method \in BodyMethods =>
                    BodyCheckPassed(req[r]) /\ Precedes(req[r], "body_ok", "call_next")
              /\ RateLimited(req[r]) =>
                    CheckAdmitted(req[r]) /\ Precedes(req[r], "check_admitted", "call_next")
              /\ (req[r].method \in BodyMethods /\ RateLimited(req[r])) =>
                    Precedes(req[r], "body_ok", "check_admitted")

\* one request refused with 429 while another, admitted, is with the handler
C9_Witness ==
    \E r, q \in Requests :
        /\ ByMiddleware(req[r], 429) /\ ~Dispatched(req[r])
        /\ req[q].pc = "handling"
        /\ req[q].trail = <<"precheck_ok", "body_ok", "check_admitted", "call_next">>

(* C10: when check raises, the request is answered 503                        *)
(* rate_limiter_unavailable and is not dispatched; no request to a scoped     *)
(* path with a method other than OPTIONS is dispatched unless check returned  *)
(* admitted for it.                                                           *)
C10_LimiterFaultFailsClosed ==
    \A r \in Requests :
        /\ Has(req[r], "check_raised") =>
              /\ req[r].pc = "done"
              /\ ByMiddleware(req[r], 503)
              /\ req[r].response.code = "rate_limiter_unavailable"
              /\ ~Dispatched(req[r])
        /\ (Dispatched(req[r]) /\ RateLimited(req[r])) =>
              /\ ~Has(req[r], "check_raised")
              /\ req[r].check_result.allowed
              /\ CheckAdmitted(req[r])

\* check raised after a hit had been counted
C10_Witness ==
    \E r \in Requests :
        /\ Has(req[r], "check_raised")
        /\ ByMiddleware(req[r], 503)
        /\ Len(req[r].check_results) > 0
        /\ req[r].check_results[1].allowed
        /\ ~Dispatched(req[r])

----------------------------------------------------------------------------
\* security_middleware has returned a response for the request
Returned(rq) == rq.pc = "done"

\* the request has its final response, from the middleware or past it
Answered(rq) == rq.pc \in {"done", "raised"}

CspHeaders == {"Content-Security-Policy", "Content-Security-Policy-Report-Only"}

HasHeader(rq, name, value) ==
    name \in DOMAIN rq.response.headers /\ rq.response.headers[name] = value

(* C11: every response security_middleware returns (from the handler, 413 from *)
(* the precheck or the stream, 429, 503) carries a non-empty X-Request-ID equal *)
(* to the request's identifier, X-Content-Type-Options: nosniff,                *)
(* X-Frame-Options: DENY, Referrer-Policy: no-referrer, and exactly one of      *)
(* Content-Security-Policy and Content-Security-Policy-Report-Only.             *)
C11_ResponsesCarrySecurityHeaders ==
    \A r \in Requests :
        Returned(req[r]) =>
            /\ req[r].request_id # ""
            /\ HasHeader(req[r], "X-Request-ID", req[r].request_id)
            /\ HasHeader(req[r], "X-Content-Type-Options", "nosniff")
            /\ HasHeader(req[r], "X-Frame-Options", "DENY")
            /\ HasHeader(req[r], "Referrer-Policy", "no-referrer")
            /\ Cardinality(CspHeaders \cap DOMAIN req[r].response.headers) = 1
            /\ (IF cfg.csp_report_only THEN "Content-Security-Policy-Report-Only"
                                       ELSE "Content-Security-Policy")
                  \in DOMAIN req[r].response.headers

\* an enforced policy: a 503 of the handler passed on, then a 429 of the middleware
C11_Witness ==
    /\ ~cfg.csp_report_only
    /\ \E r, q \in Requests :
          /\ Returned(req[q]) /\ req[q].response.by = "handler"
          /\ req[q].response.status = 503
          /\ HasHeader(req[q], "X-Request-ID", req[q].request_id)
          /\ Returned(req[r]) /\ ByMiddleware(req[r], 429)
          /\ HasHeader(req[r], "X-Request-ID", req[r].request_id)
          /\ req[r].request_id # req[q].request_id
          /\ "Content-Security-Policy" \in DOMAIN req[r].response.headers

CompletionLogs(rq) ==
    {i \in 1..Len(rq.logs) : rq.logs[i].event = "request_complete"}

(* C12: for every request, whatever its outcome (dispatched, 413, 429, 503),    *)
(* exactly one completion log line carrying request identifier, method, path,   *)
(* status code, duration and client identity has been emitted when the response *)
(* leaves the middleware.                                                       *)
C12_OneCompletionLogPerRequest ==
    \A r \in Requests :
        Returned(req[r]) =>
            /\ Cardinality(CompletionLogs(req[r])) = 1
            /\ \A i \in CompletionLogs(req[r]) :
                  /\ {"request_id", "method", "path", "status_code", "duration_ms",
                      "client_ip"} \subseteq req[r].logs[i].fields
                  /\ req[r].logs[i].request_id = req[r].request_id
                  /\ req[r].logs[i].status_code = req[r].response.status

\* scopes build_rate_limit_policy gives no rules
AbsentScopes == {"health", "models"}

\* check with nothing to stop it, on the table as it is now
CheckNow(scope) ==
    Check(Table, policy, scope, Client, clock, Len(PolicyRules(policy, scope)), FALSE)

ExemptStep(r) == req'[r] # req[r] /\ ~RateLimited(req'[r])

(* C13: a step of a request whose path maps to no scope, or whose method is     *)
(* OPTIONS, calls no check and changes no counter, and the middleware never     *)
(* answers such a request 429 or 503, however many requests the client has      *)
(* made; check for a scope absent from the policy admits with delay 0 and       *)
(* leaves the table as it was.                                                  *)
C13_ExemptRequestsBypassLimiter ==
    /\ [][\A r \in Requests :
            ExemptStep(r) =>
                /\ counts' = counts /\ bg' = bg /\ evicted' = evicted
                /\ order' = order
                /\ req'[r].check_results = <<>>
                /\ ~ByMiddleware(req'[r], 429)
                /\ ~ByMiddleware(req'[r], 503)]_vars
    /\ [](\A s \in AbsentScopes :
            /\ CheckNow(s).result = [allowed |-> TRUE, retry_after |-> 0]
            /\ CheckNow(s).tbl = Table)

\* the client has used up 1/minute; its OPTIONS request to the same path goes
\* to the handler and the bucket still holds 1
C13_Witness ==
    /\ policy["generate_response"] = <<RateLimitRule(1, 60)>>
    /\ \E r, q \in Requests :
          /\ req[q].method = "POST" /\ Checked(q) /\ Has(req[q], "check_admitted")
          /\ req[r].method = "OPTIONS" /\ req[r].path = "/generate_response"
          /\ req[r].client_ip = req[q].client_ip
          /\ Dispatched(req[r])
          /\ order = <<q>>
          /\ counts[<<Client, "generate_response", 60, 0>>] = 1
          /\ CheckNow("generate_response").result.allowed = FALSE

(* C17: the body limit in force is never below 1024: a configured integer below *)
(* 1024 (0 and negatives too) gives 1024, one of 1024 or more is taken as it    *)
(* is, and a value that is no integer gives 65536.                              *)
C17_BodyLimitNeverBelowFloor ==
    /\ cfg.body_limit_bytes >= 1024
    /\ (cfg.max_request_body_bytes.kind = "int" /\ cfg.max_request_body_bytes.val < 1024)
          => cfg.body_limit_bytes = 1024
    /\ (cfg.max_request_body_bytes.kind = "int" /\ cfg.max_request_body_bytes.val >= 1024)
          => cfg.body_limit_bytes = cfg.max_request_body_bytes.val
    /\ cfg.max_request_body_bytes.kind = "junk" => cfg.body_limit_bytes = 65536

\* 0 configured: a streamed body of 500 bytes is read and passes under 1024
C17_Witness ==
    /\ cfg.max_request_body_bytes = IntText(0)
    /\ cfg.body_limit_bytes = 1024
    /\ \E r \in Requests :
          /\ req[r].method = "POST"
          /\ req[r].body_len = 500
          /\ req[r].read_bytes = 500
          /\ Has(req[r], "body_ok")
          /\ Dispatched(req[r])

\* the connection address, or the sentinel
ConnectionIdentity(rq) == IF rq.host # "" THEN rq.host ELSE "unknown"

Arrived(rq) == rq.pc # "new"

(* C14: with TRUST_PROXY_HEADERS off, the client identity is the connection     *)
(* address, or "unknown" without one, whatever X-Forwarded-For and X-Real-IP    *)
(* say: requests from one address get one identity and are counted in the same  *)
(* buckets, so that under 1/minute the second of them is answered 429.          *)
C14_UntrustedHeadersIgnored ==
    ~cfg.trust_proxy_headers =>
        /\ \A r \in Requests :
              Arrived(req[r]) => req[r].client_ip = ConnectionIdentity(req[r])
        /\ \A b \in DOMAIN counts :
              \E r \in Requests : Checked(r) /\ b[1] = ConnectionIdentity(req[r])
        /\ \A r \in Requests :
              Checked(r) =>
                  (Answered429(req[r]) <=>
                      \E q \in Requests :
                          /\ Checked(q) /\ Position(q) < Position(r)
                          /\ ConnectionIdentity(req[q]) = ConnectionIdentity(req[r]))

\* two requests from one address, one with forged headers: the second is refused
C14_Witness ==
    /\ ~cfg.trust_proxy_headers
    /\ \E r, q \in Requests :
          /\ req[q].host = Client /\ req[q].forwarded_for = <<>> /\ req[q].real_ip = ""
          /\ req[r].host = Client /\ req[r].forwarded_for = <<" ", " 1.2.3.4">>
          /\ req[r].real_ip = " 5.6.7.8 "
          /\ req[q].response.status = 200
          /\ req[r].client_ip = Client
          /\ Answered429(req[r])
          /\ DOMAIN counts = {<<Client, "generate_response", 60, 0>>}

FixedMessage == "Internal server error."

Leaked(rq) ==
    \E o \in HandlerOutcomes : o[3] # "" /\ rq.response.message = o[3]

(* C15: for every HTTPException with status >= 500 and for every unhandled      *)
(* exception the response has code internal_error and the message 'Internal     *)
(* server error.'; no 5xx response carries the exception's detail or text.      *)
C15_ServerErrorsCarryNoDetail ==
    \A r \in Requests :
        Answered(req[r]) =>
            /\ (req[r].outcome # <<>> /\ req[r].outcome[1] = "http_exception"
                                      /\ req[r].outcome[2] >= 500) =>
                  /\ req[r].response.status = req[r].outcome[2]
                  /\ req[r].response.code = "internal_error"
                  /\ req[r].response.message = FixedMessage
            /\ (req[r].outcome # <<>> /\ req[r].outcome[1] = "exception") =>
                  /\ req[r].response.status = 500
                  /\ req[r].response.code = "internal_error"
                  /\ req[r].response.message = FixedMessage
            /\ req[r].response.status >= 500 => ~Leaked(req[r])

\* a 500 raised by the route with its text, and an exception nothing handles
C15_Witness ==
    \E r, q \in Requests :
        /\ Returned(req[q])
        /\ req[q].outcome = <<"http_exception", 500, "stack: generate() line 62">>
        /\ req[q].response.message = FixedMessage
        /\ req[r].pc = "raised"
        /\ req[r].outcome[1] = "exception"
        /\ req[r].response.status = 500
        /\ req[r].response.code = "internal_error"

(* C16: every error response (413, 429, 503 of the middleware; 422, 4xx, 5xx    *)
(* of the exception handlers) has a non-empty error.request_id, the identifier  *)
(* the middleware generated for that request: the one of its X-Request-ID       *)
(* header and of its log lines, never a second one.                             *)
C16_ErrorsEchoRequestId ==
    \A r \in Requests :
        (Answered(req[r]) /\ req[r].response.status >= 400) =>
            /\ req[r].response.error_request_id # ""
            /\ req[r].response.error_request_id = req[r].request_id
            /\ Returned(req[r]) =>
                  HasHeader(req[r], "X-Request-ID", req[r].response.error_request_id)
            /\ \A i \in 1..Len(req[r].logs) :
                  req[r].logs[i].request_id = req[r].response.error_request_id

\* a 422 of the validation handler after a 413 of the middleware
C16_Witness ==
    \E r, q \in Requests :
        /\ ByMiddleware(req[q], 413)
        /\ req[q].response.error_request_id = req[q].request_id
        /\ Returned(req[r]) /\ req[r].response.by = "handler"
        /\ req[r].response.status = 422
        /\ req[r].response.error_request_id = req[r].request_id
        /\ req[r].request_id # req[q].request_id
        /\ Len(req[r].logs) > 0

----------------------------------------------------------------------------
\* thread t makes its next hit in this step
HitStep(t) == Len(thr'[t].results) = Len(thr[t].results) + 1

NextBucket(t) ==
    BucketOf(Client, StoreScope, StoreRules[Len(thr[t].results) + 1], thr[t].now)

(* C18: check calls hit once for every rule of the scope, in policy order and   *)
(* with the same `now`, also after an earlier rule has denied; each hit         *)
(* increments its rule's bucket if and only if that bucket's count was below    *)
(* the rule's limit, whatever the other rules returned.                         *)
C18_EveryRuleHitAndCountedAlone ==
    /\ [][\A t \in 1..NumThreads :
            HitStep(t) =>
                LET i == Len(thr'[t].results)
                    b == NextBucket(t)
                IN  /\ thr[t].pc = "hit"
                    /\ i <= Len(StoreRules)
                    /\ thr'[t].now = thr[t].now
                    /\ SubSeq(thr'[t].results, 1, i - 1) = thr[t].results
                    /\ thr'[t].results[i].allowed <=> GetCount(counts, b) < StoreRules[i].limit
                    /\ IF thr'[t].results[i].allowed
                       THEN /\ b \in DOMAIN counts'
                            /\ counts'[b] = GetCount(counts, b) + 1
                            /\ \A x \in DOMAIN counts' \ {b} : counts'[x] = counts[x]
                       ELSE /\ counts' = counts
                            /\ thr'[t].results[i].retry_after = b[4] + b[3] - IntPart(thr[t].now)]_vars
    /\ [](\A t \in 1..NumThreads :
            /\ thr[t].pc = "done" => Len(thr[t].results) = Len(StoreRules)
            /\ thr[t].pc = "hit" => Len(thr[t].results) < Len(StoreRules))

\* a check that 1/second denied and 2/minute admitted and counted
C18_Witness ==
    /\ StoreRules = <<RateLimitRule(1, 1), RateLimitRule(2, 60)>>
    /\ evicted = {}
    /\ \E t \in 1..NumThreads :
          /\ thr[t].pc = "done"
          /\ thr[t].now = <<0, 1>>
          /\ ~thr[t].results[1].allowed
          /\ thr[t].results[2].allowed
          /\ ~thr[t].result.allowed
          /\ counts[<<Client, StoreScope, 60, 0>>] = 2
          /\ counts[<<Client, StoreScope, 1, 0>>] = 1

DenyingDelays(results) == {results[i].retry_after : i \in Denied(results)}

(* C19: check admits if and only if every rule's hit admitted; when it denies,  *)
(* its delay is the largest of the delays the denying rules returned, and when  *)
(* it admits the delay is 0.                                                    *)
C19_AdmitsIffAllAdmitMaxDelay ==
    \A t \in 1..NumThreads :
        thr[t].pc = "done" =>
            /\ thr[t].result.allowed <=>
                  \A i \in 1..Len(StoreRules) : thr[t].results[i].allowed
            /\ thr[t].result.allowed => thr[t].result.retry_after = 0
            /\ ~thr[t].result.allowed =>
                  /\ thr[t].result.retry_after \in DenyingDelays(thr[t].results)
                  /\ \A d \in DenyingDelays(thr[t].results) : d <= thr[t].result.retry_after

\* both rules deny, with delays 1 and 60: check answers 60; another check admits
C19_Witness ==
    \E t, u \in 1..NumThreads :
        /\ thr[t].pc = "done"
        /\ thr[t].results = <<[allowed |-> FALSE, retry_after |-> 1],
                               [allowed |-> FALSE, retry_after |-> 60]>>
        /\ thr[t].result = [allowed |-> FALSE, retry_after |-> 60]
        /\ thr[u].pc = "done"
        /\ thr[u].result = [allowed |-> TRUE, retry_after |-> 0]

\* check returned a denial for the request
CheckDenied(rq) == Has(rq, "check_denied")

\* r's check ran after q's denial, for the same client and scope, and returned
FollowsDenial(r, q) ==
    /\ Checked(q) /\ Checked(r) /\ Position(q) < Position(r)
    /\ CheckDenied(req[q])
    /\ ~Has(req[r], "check_raised")
    /\ req[r].client_ip = req[q].client_ip
    /\ req[r].path = req[q].path
    /\ ~Before(req[r].check_now, req[q].check_now)

\* t + R for a reading t and whole seconds R
Later(t, seconds) == <<t[1] + seconds, t[2]>>

(* C20 as stated: after check denies at time t with delay R, every check for    *)
(* the same client and scope at a time t' with t <= t' < t + R is denied.       *)
C20_DeniedUntilDelayPassed ==
    \A r, q \in Requests :
        (/\ FollowsDenial(r, q)
         /\ Before(req[r].check_now, Later(req[q].check_now, req[q].check_result.retry_after)))
        => CheckDenied(req[r])

(* C20 amended: after check denies at time t with delay R, every later check    *)
(* for the same client and scope at a time t' >= t with int(t') < int(t) + R,   *)
(* that is before the end of the denying window, is denied.                     *)
C20_DeniedUntilWindowEnds ==
    \A r, q \in Requests :
        (/\ FollowsDenial(r, q)
         /\ IntPart(req[r].check_now) < IntPart(req[q].check_now) + req[q].check_result.retry_after)
        => CheckDenied(req[r])

\* denied at 0.5 with delay 60, and denied again at 59.5
C20_Witness ==
    \E r, q \in Requests :
        /\ FollowsDenial(r, q)
        /\ req[q].check_now = <<0, 1>>
        /\ req[q].check_result.retry_after = 60
        /\ req[r].check_now = <<59, 1>>
        /\ CheckDenied(req[r])
        /\ req[r].response.status = 429

----------------------------------------------------------------------------
\* the result of the hit thread t makes in this step
HitResult(t) == thr'[t].results[Len(thr'[t].results)]

\* the table changes in this step
TableChanges == counts' # counts \/ bg' # bg

(* C21: a hit that returns denied leaves the counter table as it was: no       *)
(* bucket is created, incremented or removed and no sweep runs.  Only a hit    *)
(* that returns admitted changes the table: it adds exactly 1 to exactly one   *)
(* bucket, and whatever else changes is a bucket removed by the sweep.         *)
C21_OnlyAdmittedHitsChangeTable ==
    [][/\ \A t \in 1..NumThreads :
            HitStep(t) =>
                IF HitResult(t).allowed
                THEN LET b == NextBucket(t)
                     IN  /\ b \in DOMAIN counts'
                         /\ counts'[b] = GetCount(counts, b) + 1
                         /\ DOMAIN counts' \subseteq DOMAIN counts \cup {b}
                         /\ \A x \in DOMAIN counts' \ {b} : counts'[x] = counts[x]
                         /\ evicted' = evicted \cup (DOMAIN counts \ DOMAIN counts')
                         /\ bg' # bg => bg'.n = 0
                ELSE /\ counts' = counts
                     /\ bg' = bg
                     /\ evicted' = evicted
       /\ TableChanges => \E t \in 1..NumThreads : HitStep(t) /\ HitResult(t).allowed]_vars

\* a denied hit found the table with two buckets and a sweep behind it, and left
\* it so
C21_Witness ==
    \E t \in 1..NumThreads :
        /\ thr[t].pc = "done"
        /\ Len(thr[t].results) = 1
        /\ ~thr[t].results[1].allowed
        /\ thr[t].now = <<1, 0>>
        /\ evicted = {<<Client, StoreScope, 1, 0>>}
        /\ counts = (<<Client, StoreScope, 1, 1>> :> 1)

\* the window of bucket x has elapsed at the time `now` of a hit
Elapsed(x, now) == x[4] + x[3] <= IntPart(now)

(* C22: once the table holds the eviction threshold's number of buckets, an    *)
(* admitted hit at time `now` removes every bucket whose window has elapsed    *)
(* (window_start + window_seconds <= now) and leaves the count of every other  *)
(* bucket as it was, the bucket it has just incremented included.              *)
C22_SweepRemovesElapsedOnly ==
    [][\A t \in 1..NumThreads :
          LET b   == NextBucket(t)
              now == thr[t].now
              all == DOMAIN counts \cup {b}
          IN  (/\ HitStep(t)
               /\ HitResult(t).allowed
               /\ Cardinality(all) + bg.n >= CleanupThreshold)
              => /\ DOMAIN counts' = {x \in all : ~Elapsed(x, now)}
                 /\ b \in DOMAIN counts'
                 /\ counts'[b] = GetCount(counts, b) + 1
                 /\ \A x \in DOMAIN counts' \ {b} : counts'[x] = counts[x]
                 /\ bg'.n = IF bg.expiry <= IntPart(now) THEN 0 ELSE bg.n]_vars

\* the hit at 1.0 on the 1/second rule swept the bucket of second 0, whose window
\* ended at 1, and kept the minute's bucket at 2 and its own at 1
C22_Witness ==
    /\ bg = [n |-> CleanupThreshold - 2, expiry |-> 3600]
    /\ evicted = {<<Client, StoreScope, 1, 0>>}
    /\ counts = (<<Client, StoreScope, 1, 1>> :> 1) @@ (<<Client, StoreScope, 60, 0>> :> 2)
    /\ \E t \in 1..NumThreads : thr[t].now = <<1, 0>> /\ thr[t].pc = "done"

----------------------------------------------------------------------------
\* a read of the request's body stream raised
ReadRaised(rq) == Has(rq, "read_failed")

(* C23: when reading the body stream of a POST, PUT or PATCH request fails     *)
(* with an exception other than the size-limit signal, the middleware answers  *)
(* 413 with code payload_too_large: the request is never dispatched to the     *)
(* handler and never reaches the rate-limit check.                             *)
C23_ReadFailureFailsClosed ==
    \A r \in Requests :
        ReadRaised(req[r]) =>
            /\ req[r].method \in BodyMethods
            /\ req[r].pc = "done"
            /\ ByMiddleware(req[r], 413)
            /\ req[r].response.code = "payload_too_large"
            /\ ~Dispatched(req[r])
            /\ ~Checked(r)
            /\ req[r].check_results = <<>>
            /\ ~Has(req[r], "check_admitted")
            /\ ~Has(req[r], "check_denied")
            /\ ~Has(req[r], "check_raised")

\* the stream failed after a first chunk well within the limit had been read
C23_Witness ==
    \E r \in Requests :
        /\ ReadRaised(req[r])
        /\ req[r].method = "POST"
        /\ req[r].reads = 1
        /\ req[r].read_bytes > 0
        /\ req[r].read_bytes < cfg.body_limit_bytes
        /\ req[r].response.status = 413
        /\ counts = <<>>

----------------------------------------------------------------------------
\* thread t stands at `with self._lock`, waiting for the lock
Waiting(t) == thr[t].pc = "hit"

\* thread t is inside the block of `with self._lock`
InsideHit(t) == thr[t].pc = "locked"

(* C24: the store's lock is held only inside hit and is released on every exit *)
(* path of hit (admitted, denied, exception): whoever is outside hit holds no  *)
(* lock, at most one thread is inside, and every thread that waits for the     *)
(* lock acquires it in the end, so every check ends and the lock ends free.    *)
C24_LockHeldOnlyInsideHit ==
    /\ [](lock # 0 => InsideHit(lock))
    /\ [](\A t \in 1..NumThreads : InsideHit(t) => lock = t)
    /\ \A t \in 1..NumThreads : Waiting(t) ~> InsideHit(t)
    /\ \A t \in 1..NumThreads : Waiting(t) ~> (thr[t].pc \in {"done", "raised"} /\ lock # t)

\* one check left hit by an exception, one by a denial, one by admissions, and the
\* lock is free
C24_Witness ==
    /\ lock = 0
    /\ \E t, u, v \in 1..NumThreads :
          /\ thr[t].pc = "raised"
          /\ thr[u].pc = "done" /\ ~thr[u].result.allowed
          /\ thr[v].pc = "done" /\ thr[v].result.allowed

----------------------------------------------------------------------------
\* the buckets that are in the table before and after this step
Kept == DOMAIN counts \cap DOMAIN counts'

\* request r leaves the handler in this step: a response, an error, a timeout
\* answered 504, or an exception such as a client disconnect
LeavesHandler(r) == req[r].pc = "handling" /\ req'[r].pc # "handling"

(* C25: an increment committed by hit is never undone: the count of a bucket   *)
(* never decreases while the bucket is in the table, and no later event for    *)
(* the request (a denial by a later rule of the same check, a handler error, a *)
(* timeout answered 504, an exception out of call_next) changes the table.     *)
C25_CountsNeverDecrease ==
    [][/\ \A b \in Kept : counts'[b] >= counts[b]
       /\ \A r \in Requests :
             /\ LeavesHandler(r) => counts' = counts /\ bg' = bg
             /\ (/\ req'[r] # req[r]
                 /\ Has(req'[r], "check_denied")
                 /\ \E i \in 1..Len(req'[r].check_results) : req'[r].check_results[i].allowed)
                => \E b \in DOMAIN counts' : counts'[b] = GetCount(counts, b) + 1]_vars

\* the first request timed out downstream and was answered 504, the second was
\* admitted by 2/hour and then denied by 1/minute: both increments stand
C25_Witness ==
    \E r, q \in Requests :
        /\ req[r].pc = "done"
        /\ req[r].outcome = <<"http_exception", 504, "LLM request timed out">>
        /\ req[r].response.status = 504
        /\ req[q].pc = "done"
        /\ Has(req[q], "check_denied")
        /\ req[q].check_results[1].allowed
        /\ GetCount(counts, <<Client, "generate_response", 3600, 0>>) = 2
        /\ GetCount(counts, <<Client, "generate_response", 60, 0>>) = 1

----------------------------------------------------------------------------
\* t and u are the only checks the client has made, and both have returned
OnlyChecks(t, u) ==
    /\ t # u
    /\ thr[t].pc = "done"
    /\ thr[u].pc = "done"
    /\ \A v \in 1..NumThreads \ {t, u} : thr[v].pc = "idle"

(* C26: for a scope with two or more rules, each with limit >= 1, and a client *)
(* with no hits yet in the current windows, when two check calls for that      *)
(* client and scope run concurrently, their hit calls interleaving in any      *)
(* order, at least one of the two is admitted.                                 *)
C26_OneOfTwoConcurrentAdmitted ==
    \A t, u \in 1..NumThreads :
        (/\ OnlyChecks(t, u)
         /\ Len(StoreRules) >= 2
         /\ \A i \in 1..Len(StoreRules) : StoreRules[i].limit >= 1)
        => thr[t].result.allowed \/ thr[u].result.allowed

----------------------------------------------------------------------------
\* the rules of the scope the sequential requests go to
SeqRules == policy["generate_response"]

\* the smallest limit among the rules
MinLimit(rules) ==
    CHOOSE n \in {rules[i].limit : i \in 1..Len(rules)} :
        \A i \in 1..Len(rules) : n <= rules[i].limit

\* the requests whose check ran in the minute that starts at 0
CheckedInMinute == {r \in Requests : Checked(r) /\ IntPart(req[r].check_now) < 60}

(* C27: each rule of a scope is counted in its own bucket, also when two rules *)
(* have the same window length: one check increments any one bucket at most    *)
(* once, and sequential requests from one client are admitted exactly          *)
(* min(limit) times in one window of a policy whose rules share the window.    *)
C27_SameWindowRulesCountedApart ==
    (/\ \A i \in 1..Len(SeqRules) : SeqRules[i].window_seconds = 60
     /\ \A r \in CheckedInMinute : ~Has(req[r], "check_raised"))
    => /\ \A b \in DOMAIN counts :
             b[4] = 0 => counts[b] <= Cardinality(CheckedInMinute)
       /\ Cardinality({r \in CheckedInMinute : Has(req[r], "check_admitted")})
             = Min(Cardinality(CheckedInMinute), MinLimit(SeqRules))

----------------------------------------------------------------------------
\* q's check denied with delay R, r's check is the client's next one for the
\* scope, with no request in between, and it ran at q's time plus R and returned
RetriesAfterDelay(r, q) ==
    /\ FollowsDenial(r, q)
    /\ Position(r) = Position(q) + 1
    /\ req[r].check_now = Later(req[q].check_now, req[q].check_result.retry_after)

----------------------------------------------------------------------------
\* request r takes a step of the body guard: it goes on reading, or is answered
\* 413 by the precheck, by the streaming check or after a failed read
BodyGuardStep(r) ==
    /\ req'[r] # req[r]
    /\ (req'[r].pc = "reading" \/ Answered413(req'[r]))

(* C29: a request rejected with 413 (by the Content-Length precheck, by the    *)
(* streaming check, or after a body read failure) consumes no rate-limit       *)
(* quota: the counter table is the same after the rejection as before it,      *)
(* because the body-size check completes before the rate-limit check starts.   *)
C29_RejectedBodyConsumesNoQuota ==
    /\ [][\A r \in Requests :
            BodyGuardStep(r) =>
                /\ counts' = counts
                /\ bg' = bg
                /\ evicted' = evicted
                /\ order' = order]_vars
    /\ [](\A r \in Requests :
            /\ Answered413(req[r]) => ~Checked(r) /\ req[r].check_results = <<>>
            /\ (Checked(r) /\ req[r].method \in BodyMethods) => BodyCheckPassed(req[r]))

\* the first request was admitted and counted; the second was rejected by the
\* streaming check after 70000 bytes and the count is still 1
C29_Witness ==
    \E r, q \in Requests :
        /\ Answered413(req[r])
        /\ req[r].read_bytes > cfg.body_limit_bytes
        /\ req[r].path = "/generate_response"
        /\ Checked(q)
        /\ Has(req[q], "check_admitted")
        /\ req[q].pc = "done"
        /\ order = <<q>>
        /\ counts = (<<Client, "generate_response", 60, 0>> :> 1)

----------------------------------------------------------------------------
\* q's check was for the same client identity and the same scope as r's
SamePair(q, r) ==
    /\ req[q].client_ip = req[r].client_ip
    /\ ResolveRateLimitScope(req[q].path) = ResolveRateLimitScope(req[r].path)

\* a table that holds nothing of anyone else
OwnTable == [counts |-> <<>>, bg |-> [n |-> 0, expiry |-> 0]]

\* what request q's check does to table tbl, run as it ran
Replay(tbl, q) ==
    Check(tbl, policy, ResolveRateLimitScope(req[q].path), req[q].client_ip,
          req[q].check_now, Len(req[q].check_results), FALSE)

\* the table after the first i checks, had only the checks of r's client and
\* scope taken place
RECURSIVE Alone(_, _)
Alone(r, i) ==
    IF i = 0 THEN OwnTable
    ELSE IF SamePair(order[i], r) THEN Replay(Alone(r, i - 1), order[i]).tbl
    ELSE Alone(r, i - 1)

(* C30: rate-limit state is partitioned by (client identity, scope): the       *)
(* decision and the retry delay a check returns for one (client, scope) pair   *)
(* are what they would be had the requests of other clients and to other       *)
(* scopes never occurred, also when those requests trigger a sweep.            *)
C30_DecisionsIndependentOfOthers ==
    \A r \in Requests :
        Checked(r) =>
            LET alone == Replay(Alone(r, Position(r) - 1), r)
            IN  /\ req[r].check_results = alone.results
                /\ req[r].check_result = alone.result

\* between two requests of one client to one scope, another client's request
\* swept the bucket of second 0 of the first; the second is counted by 2/minute
\* on top of the first all the same
C30_Witness ==
    \E r, q, o \in Requests :
        /\ Checked(r) /\ Checked(q) /\ Checked(o)
        /\ Position(q) < Position(o) /\ Position(o) < Position(r)
        /\ SamePair(q, r)
        /\ req[o].client_ip # req[r].client_ip
        /\ <<req[r].client_ip, "generate_response", 1, 0>> \in evicted
        /\ req[r].check_result.allowed
        /\ GetCount(counts, <<req[r].client_ip, "generate_response", 60, 0>>) = 2

====
